---- MODULE Spec2Model ----
(***************************************************************************)
(* A model of the VERDEX soil forecast service (src/app.py): the sensor    *)
(* table read through fetch_sensor_data, the per-parameter MinMaxScaler    *)
(* store SCALERS, the model registry MODELS / MODEL_INFO, and the request  *)
(* handlers predict, get_historical, health_check and model_status.        *)
(*                                                                         *)
(* Floating point numbers are IEEE 754 doubles, modelled bit for bit as    *)
(* binary numbers <<s, m, e>> whose arithmetic rounds to 53 bits; a number *)
(* that round() returned is written as the decimal fraction <<n, d>> it    *)
(* prints.  Sensor cells are integer readings or non-numeric text; null    *)
(* cells (NaN) are outside the modelled input domain.  The array a model   *)
(* returns holds doubles.  A Python exception is a record with the field   *)
(* "raised".                                                               *)
(***************************************************************************)
EXTENDS Integers, Sequences, FiniteSets, TLC

(***************************************************************************)
(* Program constants.                                                      *)
(***************************************************************************)
INPUT_STEPS == 30

FORECAST_STEPS == 10

PREDICT_FETCH_LIMIT == 500

FIT_FETCH_LIMIT == 5000

ParamOrder == <<"nitrogen", "phosphorus", "moisture", "pH">>

Params == {ParamOrder[i] : i \in 1..Len(ParamOrder)}

MODEL_MAPPING ==
  [nitrogen   |-> "models/lstm_soil_nitrogen_model.h5",
   phosphorus |-> "models/lstm_soil_phosphorus_model.h5",
   moisture   |-> "models/soil_moisture_lstm_model.h5",
   pH         |-> "models/soil_pH_lstm_model.keras"]

COLUMN_MAPPING ==
  [nitrogen |-> "nitrogen", phosphorus |-> "phosphorus",
   moisture |-> "potassium", pH |-> "ph"]

PARAM_NAMES ==
  [nitrogen |-> "Nitrogen (N)", phosphorus |-> "Phosphorus (P)",
   moisture |-> "Soil Moisture (K)", pH |-> "Soil pH"]

\* The columns named in the select of fetch_sensor_data.
SelectedColumns ==
  {"id", "datetime", "nitrogen", "phosphorus", "potassium", "ph",
   "temperature", "humidity"}

(***************************************************************************)
(* Bounds of the model.                                                    *)
(***************************************************************************)
\* Batches of rows the sensors append to the table.
MaxBatches == 2

\* Changes of a model artifact on disk.
MaxFsChanges == 1

\* Longest series handed to create_sequences beyond INPUT_STEPS.
MaxSlack == 2
\* Readings that arrive while the server runs.
MaxReadings == 1

(***************************************************************************)
(* Natural numbers of any size: the sequence of their digits to the base   *)
(* 2^15, lowest digit first, without leading zero digits (zero is <<>>).   *)
(***************************************************************************)
Base == 2^15

Abs(x) == IF x < 0 THEN -x ELSE x

Digit(a, i) == IF i <= Len(a) THEN a[i] ELSE 0

RECURSIVE NNorm(_)
NNorm(a) ==
  IF a = <<>> THEN a
  ELSE IF a[Len(a)] = 0 THEN NNorm(SubSeq(a, 1, Len(a) - 1)) ELSE a

RECURSIVE NFromInt(_)
NFromInt(n) == IF n = 0 THEN <<>> ELSE <<n % Base>> \o NFromInt(n \div Base)

\* For a number below 2^31.
RECURSIVE NToInt(_)
NToInt(a) == IF a = <<>> THEN 0 ELSE a[1] + Base * NToInt(Tail(a))

RECURSIVE NAddFrom(_, _, _, _)
NAddFrom(a, b, i, carry) ==
  IF i > Len(a) /\ i > Len(b) THEN (IF carry = 0 THEN <<>> ELSE <<carry>>)
  ELSE LET s == Digit(a, i) + Digit(b, i) + carry
       IN  <<s % Base>> \o NAddFrom(a, b, i + 1, s \div Base)

NAdd(a, b) == NAddFrom(a, b, 1, 0)

RECURSIVE NSubFrom(_, _, _, _)
NSubFrom(a, b, i, borrow) ==
  IF i > Len(a) THEN <<>>
  ELSE LET s == a[i] - Digit(b, i) - borrow
       IN  <<s % Base>> \o NSubFrom(a, b, i + 1, IF s < 0 THEN 1 ELSE 0)

\* a - b for a >= b.
NSub(a, b) == NNorm(NSubFrom(a, b, 1, 0))

RECURSIVE NCmpFrom(_, _, _)
NCmpFrom(a, b, i) ==
  IF i = 0 THEN 0
  ELSE IF a[i] # b[i] THEN (IF a[i] < b[i] THEN -1 ELSE 1)
  ELSE NCmpFrom(a, b, i - 1)

\* -1, 0 or 1 as a is less than, equal to or greater than b.
NCmp(a, b) ==
  IF Len(a) # Len(b) THEN (IF Len(a) < Len(b) THEN -1 ELSE 1)
  ELSE NCmpFrom(a, b, Len(a))

RECURSIVE NMulFrom(_, _, _, _)
NMulFrom(a, m, i, carry) ==
  IF i > Len(a) THEN (IF carry = 0 THEN <<>> ELSE <<carry>>)
  ELSE LET p == a[i] * m + carry
       IN  <<p % Base>> \o NMulFrom(a, m, i + 1, p \div Base)

\* a * m for 0 <= m <= Base.
NMulSmall(a, m) == IF m = 0 THEN <<>> ELSE NMulFrom(a, m, 1, 0)

\* a * Base^k.
NShiftDigits(a, k) == IF a = <<>> THEN a ELSE [i \in 1..k |-> 0] \o a

RECURSIVE NMul(_, _)
NMul(a, b) ==
  IF b = <<>> \/ a = <<>> THEN <<>>
  ELSE NAdd(NMulSmall(a, b[1]), NShiftDigits(NMul(a, Tail(b)), 1))

\* a * 2^s.
NShl(a, s) == IF s = 0 THEN a ELSE NShiftDigits(NMulSmall(a, 2^(s % 15)), s \div 15)

\* Quotient digits (highest first in the recursion) and remainder of a by a
\* small m, 1 <= m <= Base, from digit i down with r carried in.
RECURSIVE NDivSmallFrom(_, _, _, _)
NDivSmallFrom(a, m, i, r) ==
  IF i = 0 THEN [q |-> <<>>, r |-> r]
  ELSE LET cur  == r * Base + a[i]
           rest == NDivSmallFrom(a, m, i - 1, cur % m)
       IN  [q |-> Append(rest.q, cur \div m), r |-> rest.r]

NDivSmall(a, m) ==
  LET res == NDivSmallFrom(a, m, Len(a), 0)
  IN  [q |-> NNorm(res.q), r |-> NFromInt(res.r)]

\* floor(a / 2^s).
NShr(a, s) ==
  IF s = 0 THEN a
  ELSE IF s \div 15 >= Len(a) THEN <<>>
  ELSE NDivSmall(SubSeq(a, s \div 15 + 1, Len(a)), 2^(s % 15)).q

\* Bit k of a (bit 0 is the lowest).
NBit(a, k) == (Digit(a, k \div 15 + 1) \div 2^(k % 15)) % 2

\* a has a bit set below bit k.
NLowBits(a, k) ==
  \/ \E i \in 1..(k \div 15) : Digit(a, i) # 0
  \/ Digit(a, k \div 15 + 1) % 2^(k % 15) # 0

RECURSIVE BitLength(_)
BitLength(n) == IF n = 0 THEN 0 ELSE 1 + BitLength(n \div 2)

NBitLength(a) == IF a = <<>> THEN 0 ELSE 15 * (Len(a) - 1) + BitLength(a[Len(a)])

RECURSIVE TrailingZeros(_)
TrailingZeros(n) == IF n % 2 = 1 THEN 0 ELSE 1 + TrailingZeros(n \div 2)

\* The number of zero bits at the low end of a # 0.
RECURSIVE NTrailingZeros(_, _)
NTrailingZeros(a, i) ==
  IF a[i] = 0 THEN 15 + NTrailingZeros(a, i + 1) ELSE TrailingZeros(a[i])

\* The quotient digit of cur by b: the estimate q from the leading digits,
\* lowered until q * b <= cur.
RECURSIVE NQuotientDigit(_, _, _)
NQuotientDigit(cur, b, q) ==
  IF NCmp(NMulSmall(b, q), cur) > 0 THEN NQuotientDigit(cur, b, q - 1) ELSE q

\* Long division of a by b, whose highest digit is at least Base / 2, from
\* digit i of a down with the remainder rem carried in.
RECURSIVE NLongDiv(_, _, _, _)
NLongDiv(a, b, i, rem) ==
  IF i = 0 THEN [q |-> <<>>, r |-> rem]
  ELSE LET cur  == NNorm(<<a[i]>> \o rem)
           n    == Len(b)
           top  == Digit(cur, n + 1) * Base + Digit(cur, n)
           est  == top \div b[n]
           q    == NQuotientDigit(cur, b, IF est < Base THEN est ELSE Base - 1)
           rest == NLongDiv(a, b, i - 1, NSub(cur, NMulSmall(b, q)))
       IN  [q |-> Append(rest.q, q), r |-> rest.r]

\* Quotient of a by b # 0, and a remainder that is zero iff b divides a.
NDivMod(a, b) ==
  IF Len(b) = 1 THEN NDivSmall(a, b[1])
  ELSE LET s   == 2^(15 - BitLength(b[Len(b)]))
           an  == NMulSmall(a, s)
           res == NLongDiv(an, NMulSmall(b, s), Len(an), <<>>)
       IN  [q |-> NNorm(res.q), r |-> res.r]

\* Newton's iteration for the root of n from above.
RECURSIVE NSqrtFrom(_, _)
NSqrtFrom(n, x) ==
  LET y == NShr(NAdd(x, NDivMod(n, x).q), 1)
  IN  IF NCmp(y, x) >= 0 THEN x ELSE NSqrtFrom(n, y)

\* floor of the square root of n.
NSqrt(n) ==
  IF n = <<>> THEN n ELSE NSqrtFrom(n, NShl(<<1>>, (NBitLength(n) + 1) \div 2))

(***************************************************************************)
(* Binary numbers <<s, m, e>> = s * m * 2^e with the sign s in {-1, 0, 1}, *)
(* an odd natural number m and an integer e; zero is <<0, <<>>, 0>>.  A    *)
(* float (IEEE 754 binary64) is such a number with m < 2^53: arithmetic on *)
(* floats takes the exact result to the nearest float, ties to the even    *)
(* one.  The sign of a zero, subnormal numbers and overflow are not        *)
(* modelled.  A division by zero gives an infinity <<s, <<>>, 1>> or, for  *)
(* 0 / 0, the value <<0, <<>>, 1>> that is not a number.                   *)
(***************************************************************************)
Zero == <<0, <<>>, 0>>

Infinity(s) == <<s, <<>>, 1>>

NaN == <<0, <<>>, 1>>

IsFinite(x) == x[2] # <<>> \/ x[3] = 0

Binary(s, m, e) ==
  IF m = <<>> \/ s = 0 THEN Zero
  ELSE LET z == NTrailingZeros(m, 1) IN <<s, NShr(m, z), e + z>>

\* float(i) of an integer below 2^31 in size.
FromInt(i) ==
  IF i = 0 THEN Zero ELSE Binary(IF i < 0 THEN -1 ELSE 1, NFromInt(Abs(i)), 0)

BNeg(x) == <<-x[1], x[2], x[3]>>

BAbs(x) == <<Abs(x[1]), x[2], x[3]>>

\* Exact sum, difference and product.
BAdd(x, y) ==
  IF x[1] = 0 THEN y
  ELSE IF y[1] = 0 THEN x
  ELSE LET e  == IF x[3] < y[3] THEN x[3] ELSE y[3]
           mx == NShl(x[2], x[3] - e)
           my == NShl(y[2], y[3] - e)
           c  == NCmp(mx, my)
       IN  IF x[1] = y[1] THEN Binary(x[1], NAdd(mx, my), e)
           ELSE IF c = 0 THEN Zero
           ELSE IF c > 0 THEN Binary(x[1], NSub(mx, my), e)
           ELSE Binary(y[1], NSub(my, mx), e)

BSub(x, y) == BAdd(x, BNeg(y))

BMul(x, y) == Binary(x[1] * y[1], NMul(x[2], y[2]), x[3] + y[3])

\* x < y: false when either is not a number.
BLess(x, y) ==
  IF x = NaN \/ y = NaN THEN FALSE
  ELSE IF ~IsFinite(x) \/ ~IsFinite(y)
  THEN x # y /\ (x = Infinity(-1) \/ y = Infinity(1))
  ELSE IF x[1] # y[1] THEN x[1] < y[1]
  ELSE IF x[1] = 0 THEN FALSE
  ELSE LET tx == NBitLength(x[2]) + x[3]
           ty == NBitLength(y[2]) + y[3]
       IN  IF tx # ty THEN (tx < ty) = (x[1] > 0) ELSE BSub(x, y)[1] < 0

\* The float nearest to s * (m + f) * 2^e, where m has at least 55 bits or
\* f = 0, and 0 <= f < 1 with f > 0 iff `more`: half to even.
Nearest(s, m, e, more) ==
  LET drop == NBitLength(m) - 53
  IN  IF drop <= 0 THEN Binary(s, m, e)
      ELSE LET kept == NShr(m, drop)
               up   == /\ NBit(m, drop - 1) = 1
                       /\ more \/ NLowBits(m, drop - 1) \/ NBit(kept, 0) = 1
           IN  Binary(s, IF up THEN NAdd(kept, <<1>>) ELSE kept, e + drop)

\* The float nearest to a binary number.
Float(x) ==
  IF NBitLength(x[2]) <= 53 THEN x ELSE Nearest(x[1], x[2], x[3], FALSE)

\* x + y: infinities of opposite sign give no number.
FAdd(x, y) ==
  IF IsFinite(x) /\ IsFinite(y) THEN Float(BAdd(x, y))
  ELSE IF x = NaN \/ y = NaN THEN NaN
  ELSE IF IsFinite(x) THEN y
  ELSE IF IsFinite(y) \/ x = y THEN x
  ELSE NaN

FSub(x, y) == FAdd(x, BNeg(y))

\* x * y: zero times an infinity gives no number.
FMul(x, y) ==
  IF IsFinite(x) /\ IsFinite(y) THEN Float(BMul(x, y))
  ELSE IF x = NaN \/ y = NaN \/ x = Zero \/ y = Zero THEN NaN
  ELSE Infinity(x[1] * y[1])

\* x / y: a number other than zero divided by zero is an infinity, 0 / 0 and
\* the quotient of two infinities are no number.
FDiv(x, y) ==
  IF x = NaN \/ y = NaN THEN NaN
  ELSE IF ~IsFinite(x)
  THEN IF IsFinite(y) THEN Infinity(IF y[1] < 0 THEN -x[1] ELSE x[1]) ELSE NaN
  ELSE IF ~IsFinite(y) THEN Zero
  ELSE IF y = Zero THEN IF x = Zero THEN NaN ELSE Infinity(x[1])
  ELSE IF x[1] = 0 THEN Zero
  ELSE LET k == 55 + NBitLength(y[2]) - NBitLength(x[2])
           d == NDivMod(NShl(x[2], k), y[2])
       IN  Nearest(x[1] * y[1], d.q, x[3] - y[3] - k, d.r # <<>>)

\* The square root of a finite x >= 0.
FSqrt(x) ==
  IF x[1] = 0 THEN Zero
  ELSE LET k0 == 110 - NBitLength(x[2])
           k  == IF (x[3] - k0) % 2 = 0 THEN k0 ELSE k0 + 1
           n  == NShl(x[2], k)
           r  == NSqrt(n)
       IN  Nearest(1, r, (x[3] - k) \div 2, NMul(r, r) # n)

\* The float nearest to n/d, d # 0: the literal of a decimal fraction.
FromRat(n, d) == FDiv(FromInt(n), FromInt(d))

(***************************************************************************)
(* Decimal fractions and integers.                                         *)
(***************************************************************************)
RECURSIVE GCD(_, _)
GCD(a, b) == IF b = 0 THEN a ELSE GCD(b, a % b)

\* The rational n/d in lowest terms with a positive denominator.
Rat(n, d) ==
  LET g == GCD(Abs(n), Abs(d))
      s == IF d < 0 THEN -1 ELSE 1
  IN  <<(s * n) \div g, (s * d) \div g>>

RECURSIVE Pow10(_)
Pow10(k) == IF k = 0 THEN 1 ELSE 10 * Pow10(k - 1)

Values(s) == {s[i] : i \in 1..Len(s)}

\* The function f as a table: its values are computed once, not anew every
\* time the function is applied.
Table(f) == f @@ <<>>

\* The sequence of f[x] for the elements x of xs, where f is a function on
\* Values(xs): f[x] is computed once for each distinct element.
MapSeq(f, xs) ==
  LET image == Table(f)
  IN  Table([i \in 1..Len(xs) |-> image[xs[i]]])

\* np.min and np.max of a non-empty sequence of floats.
SeqMin(s) == LET v == Values(s) IN CHOOSE m \in v : \A x \in v : ~BLess(x, m)

SeqMax(s) == LET v == Values(s) IN CHOOSE m \in v : \A x \in v : ~BLess(m, x)

\* s without its first n elements, n >= 0: s[n:].
DropFirst(s, n) == IF n >= Len(s) THEN <<>> ELSE SubSeq(s, n + 1, Len(s))

\* df.tail(n): the last n elements of s (all of s when it is shorter), none
\* for n = 0, and all but the first -n for a negative n.
LastN(s, n) ==
  IF n < 0 THEN DropFirst(s, -n)
  ELSE IF Len(s) <= n THEN s
  ELSE SubSeq(s, Len(s) - n + 1, Len(s))

\* The slice s[-n:]: as df.tail(n), but -0 is 0 and s[0:] is all of s.
SliceFromEnd(s, n) == IF n = 0 THEN s ELSE LastN(s, n)

\* The first n elements of s: s[:n], and a query's limit.  A negative n
\* leaves out the last -n elements.
FirstN(s, n) ==
  IF n < 0 THEN (IF -n >= Len(s) THEN <<>> ELSE SubSeq(s, 1, Len(s) + n))
  ELSE IF Len(s) <= n THEN s
  ELSE SubSeq(s, 1, n)

(***************************************************************************)
(* Python values.                                                          *)
(***************************************************************************)
None == [none |-> TRUE]

IsNone(x) == "none" \in DOMAIN x

Raise(kind, msg) == [raised |-> kind, error |-> msg]

IsRaised(x) == "raised" \in DOMAIN x

Return(v) == [value |-> v]

(***************************************************************************)
(* The sensor table raw_sensor_readings, in datetime order.                *)
(***************************************************************************)
Num(v) == [v |-> v]

Text == [text |-> "n/a"]

IsNumeric(c) == "v" \in DOMAIN c

\* What the sensors append, batch after batch: one reading, then a full
\* window of readings, then single readings of which every second one, from
\* the third batch on, has a potassium cell that is text.
Batch(k) ==
  IF k = 1 THEN [n |-> 1, kind |-> "numeric"]
  ELSE IF k = 2 THEN [n |-> INPUT_STEPS, kind |-> "numeric"]
  ELSE [n |-> 1, kind |-> IF k % 2 = 1 THEN "text" ELSE "numeric"]

\* The i-th reading of the table.  In a "text" batch the potassium cell is
\* not a number, in a "garbled" batch no cell is; a "peak" reading has a
\* nitrogen value above all others.
Row(i, kind) ==
  [datetime   |-> i,
   nitrogen   |-> IF kind = "garbled" THEN Text
                  ELSE IF kind = "peak" THEN Num(10 + i) ELSE Num((i + 4) % 7),
   phosphorus |-> IF kind = "garbled" THEN Text ELSE Num(10 + ((i + 1) % 5)),
   potassium  |-> IF kind \in {"text", "garbled"} THEN Text
                  ELSE Num(((i + 2) % 3) - 1),
   ph         |-> IF kind = "garbled" THEN Text ELSE Num(6 + (i % 3))]

Readings(from, n, kind) == [k \in 1..n |-> Row(from + k, kind)]

(***************************************************************************)
(* fetch_sensor_data: the query orders the table by datetime ascending and *)
(* takes the first `limit` rows of that order.  A missing client, a failed *)
(* query and an empty answer all give None.                                *)
(***************************************************************************)
QueryRows(table, limit) == FirstN(table, limit)

DataFrame(rows) == [rows |-> rows, columns |-> SelectedColumns]

fetch_sensor_data(client, reachable, table, limit) ==
  IF ~client THEN None
  ELSE IF ~reachable THEN None
  ELSE LET data == QueryRows(table, limit)
       IN  IF Len(data) > 0 THEN DataFrame(data) ELSE None

\* df[[col_name]].values: the cells of one column, oldest first.
Column(df, col) == [i \in 1..Len(df.rows) |-> df.rows[i][col]]

\* .astype(float): raises on a cell that is not a number.
AsFloat(cells) ==
  IF \A i \in 1..Len(cells) : IsNumeric(cells[i])
  THEN Return(MapSeq([c \in Values(cells) |-> FromInt(c.v)], cells))
  ELSE Raise("ValueError", "could not convert string to float: 'n/a'")

(***************************************************************************)
(* sklearn's MinMaxScaler(feature_range=(0, 1)) on one feature.            *)
(***************************************************************************)
\* A variant that divides by the range as it is.
HandleZerosInScaleNone(range) == range

\* _handle_zeros_in_scale (scikit-learn 0.24 and later): the range of a
\* constant or near constant feature, one below 10 * eps, scales by 1;
\* eps = np.finfo(np.float64).eps = 2^-52.
HandleZerosInScale(range) ==
  LET eps == Binary(1, <<1>>, -52)
  IN  IF BLess(range, FMul(FromInt(10), eps)) THEN FromInt(1) ELSE range

\* fit: data_range = data_max - data_min, scale_ = (1 - 0) / data_range,
\* min_ = 0 - data_min * scale_.
MinMaxScalerFit(data) ==
  LET lo == SeqMin(data)
      hi == SeqMax(data)
      scale == FDiv(FromInt(1), HandleZerosInScale(FSub(hi, lo)))
  IN  [data_min |-> lo, data_max |-> hi, scale_ |-> scale,
       min_ |-> FSub(Zero, FMul(lo, scale))]

\* transform: X *= scale_, then X += min_, element by element.
ScalerTransformValue(scaler, x) == FAdd(FMul(x, scaler.scale_), scaler.min_)

ScalerTransform(scaler, xs) ==
  MapSeq([x \in Values(xs) |-> ScalerTransformValue(scaler, x)], xs)

\* inverse_transform: X -= min_, then X /= scale_, element by element.
ScalerInverseValue(scaler, y) == FDiv(FSub(y, scaler.min_), scaler.scale_)

ScalerInverse(scaler, ys) ==
  MapSeq([y \in Values(ys) |-> ScalerInverseValue(scaler, y)], ys)

\* The ValueError of check_array for an array without rows; fit and transform
\* name the estimator (context ' by MinMaxScaler'), inverse_transform does not
\* (context '').  The text is kept as its parts.
EmptyArrayError(context) ==
  Raise("ValueError",
        <<"Found array with 0 sample(s) (shape=(0, 1)) while a minimum of 1 is required",
          context, ".">>)

(***************************************************************************)
(* create_sequences, normalize_data, denormalize_data.                     *)
(***************************************************************************)
\* reshape(1, n, 1) of a 1-D array of n values.
Reshape3(s) == <<[i \in 1..Len(s) |-> <<s[i]>>]>>

\* The ValueError of reshape; the text is 'cannot reshape array of size
\* {size} into shape (1,{n},1)', kept as its parts.
ReshapeError(size, n) ==
  Raise("ValueError", <<"cannot reshape array of size ", size, " into shape ", <<1, n, 1>>>>)

\* s.reshape(1, n, 1): a negative n stands for the length that fits, any
\* other n has to be the length of s.
ReshapeTo(s, n) ==
  IF n < 0 \/ Len(s) = n THEN [window |-> Reshape3(s)]
  ELSE ReshapeError(Len(s), n)

\* A variant that takes the window from the head of the series.
create_sequences_head(data, input_steps) ==
  IF Len(data) < input_steps THEN None
  ELSE ReshapeTo(FirstN(data, input_steps), input_steps)

create_sequences(data, input_steps) ==
  IF Len(data) < input_steps THEN None
  ELSE ReshapeTo(SliceFromEnd(data, input_steps), input_steps)

\* The scaler store after `normalize_data(param, data)` and what the call
\* returns.  data is a sequence of floats.
\* A variant that fits a scaler when none is stored but does not store it.
normalize_data_unstored(scalers, param, data) ==
  IF Len(data) = 0
  THEN [scalers |-> scalers, result |-> EmptyArrayError(" by MinMaxScaler")]
  ELSE [scalers |-> scalers,
        result  |-> Return(ScalerTransform(
                      IF param \in DOMAIN scalers THEN scalers[param]
                      ELSE MinMaxScalerFit(data), data))]

normalize_data(scalers, param, data) ==
  IF Len(data) = 0
  THEN [scalers |-> scalers, result |-> EmptyArrayError(" by MinMaxScaler")]
  ELSE LET fitted ==
             IF param \notin DOMAIN scalers
             THEN (param :> MinMaxScalerFit(data)) @@ scalers
             ELSE scalers
       IN  [scalers |-> fitted,
            result  |-> Return(ScalerTransform(fitted[param], data))]

\* A variant that looks the scaler up without the membership test.
denormalize_data_strict(scalers, param, normalized_data) ==
  IF param \notin DOMAIN scalers THEN Raise("KeyError", param)
  ELSE IF Len(normalized_data) = 0 THEN EmptyArrayError("")
  ELSE Return(ScalerInverse(scalers[param], normalized_data))

\* normalized_data is a sequence of floats.
denormalize_data(scalers, param, normalized_data) ==
  IF param \in DOMAIN scalers
  THEN IF Len(normalized_data) = 0
       THEN EmptyArrayError("")
       ELSE Return(ScalerInverse(scalers[param], normalized_data))
  ELSE Return(normalized_data)

(***************************************************************************)
(* fit_scalers_from_supabase.                                              *)
(***************************************************************************)
\* A variant of the pass in which a failed fit empties the store.
FitOneResetting(scalers, df, param) ==
  IF COLUMN_MAPPING[param] \notin df.columns THEN scalers
  ELSE LET data == AsFloat(Column(df, COLUMN_MAPPING[param]))
       IN  IF IsRaised(data) THEN <<>>
           ELSE (param :> MinMaxScalerFit(data.value)) @@ scalers

\* One pass of the loop over COLUMN_MAPPING: a failed fit leaves the slot
\* as it was.
FitOne(scalers, df, param) ==
  IF COLUMN_MAPPING[param] \notin df.columns THEN scalers
  ELSE LET data == AsFloat(Column(df, COLUMN_MAPPING[param]))
       IN  IF IsRaised(data) THEN scalers
           ELSE (param :> MinMaxScalerFit(data.value)) @@ scalers

RECURSIVE FitFrom(_, _, _)
FitFrom(scalers, df, k) ==
  IF k > Len(ParamOrder) THEN scalers
  ELSE FitFrom(FitOne(scalers, df, ParamOrder[k]), df, k + 1)

fit_scalers_from_supabase(scalers, client, reachable, table) ==
  LET df == fetch_sensor_data(client, reachable, table, FIT_FETCH_LIMIT)
  IN  IF IsNone(df) THEN [scalers |-> scalers, result |-> FALSE]
      ELSE LET after == FitFrom(scalers, df, 1)
           IN  [scalers |-> after, result |-> Cardinality(DOMAIN after) > 0]

(***************************************************************************)
(* load_pretrained_models.  An artifact is "present", "missing", "corrupt" *)
(* (load_model or compile raises) or "removed_during_load" (the file loads *)
(* but is gone when os.path.getsize reads it).                             *)
(***************************************************************************)
ArtifactStates == {"present", "missing", "corrupt", "removed_during_load"}

\* os.path.basename(model_path) and model_path.split('.')[-1].
MODEL_FILE ==
  [nitrogen   |-> "lstm_soil_nitrogen_model.h5",
   phosphorus |-> "lstm_soil_phosphorus_model.h5",
   moisture   |-> "soil_moisture_lstm_model.h5",
   pH         |-> "soil_pH_lstm_model.keras"]

ModelType(param) == IF param = "pH" THEN "keras" ELSE "h5"

\* The object load_model returns; .h5 files are compiled by hand.
LoadedModel(param) ==
  [path |-> MODEL_MAPPING[param],
   compiled_by_hand |-> ModelType(param) = "h5"]

LoadedInfo(param) ==
  [status |-> "loaded", display_name |-> PARAM_NAMES[param],
   model_file |-> MODEL_FILE[param],
   model_type |-> ModelType(param),
   input_steps |-> INPUT_STEPS, forecast_steps |-> FORECAST_STEPS]

\* The error text is the f-string 'Model file not found: {model_path}', kept
\* as its two parts.
NotFoundInfo(param) ==
  [status |-> "not_found", display_name |-> PARAM_NAMES[param],
   error |-> <<"Model file not found: ", MODEL_MAPPING[param]>>]

ErrorInfo(param, msg) ==
  [status |-> "error", display_name |-> PARAM_NAMES[param], error |-> msg]

\* One pass of the loop over MODEL_MAPPING.
LoadOne(reg, param, artifact) ==
  CASE artifact = "missing" ->
         [models |-> reg.models,
          info   |-> (param :> NotFoundInfo(param)) @@ reg.info]
    [] artifact = "corrupt" ->
         [models |-> reg.models,
          info   |-> (param :> ErrorInfo(param, "cannot load model")) @@ reg.info]
    [] artifact = "removed_during_load" ->
         [models |-> (param :> LoadedModel(param)) @@ reg.models,
          info   |-> (param :> ErrorInfo(param, "No such file or directory")) @@ reg.info]
    [] OTHER ->
         [models |-> (param :> LoadedModel(param)) @@ reg.models,
          info   |-> (param :> LoadedInfo(param)) @@ reg.info]

RECURSIVE LoadFrom(_, _, _)
LoadFrom(reg, files, k) ==
  IF k > Len(ParamOrder) THEN reg
  ELSE LoadFrom(LoadOne(reg, ParamOrder[k], files[ParamOrder[k]]), files, k + 1)

(***************************************************************************)
(* Rounding and the statistics of a forecast.                              *)
(***************************************************************************)
\* Python's round(x, digits) of a float x, 0 <= digits <= 4, as the decimal
\* fraction k / 10^digits it prints: the multiple of 10^-digits nearest to
\* the exact value of x, half to even.
Round(x, digits) ==
  LET n == NMulSmall(x[2], Pow10(digits))
      k == IF x[3] >= 0 THEN NShl(n, x[3])
           ELSE LET kept == NShr(n, -x[3])
                    up   == /\ NBit(n, -x[3] - 1) = 1
                            /\ NLowBits(n, -x[3] - 1) \/ NBit(kept, 0) = 1
                IN  IF up THEN NAdd(kept, <<1>>) ELSE kept
  IN  Rat(x[1] * NToInt(k), Pow10(digits))

\* round(x, digits) of every x of a sequence.
RoundEach(xs, digits) ==
  MapSeq([x \in Values(xs) |-> Round(x, digits)], xs)

\* numpy's pairwise summation of at most 128 floats: fewer than eight are
\* added one by one; otherwise eight partial sums take every eighth float,
\* are added in pairs, and the floats left over are added to the result.
RECURSIVE SumFrom(_, _, _, _)
SumFrom(s, i, n, acc) ==
  IF i > n THEN acc ELSE SumFrom(s, i + 1, n, FAdd(acc, s[i]))

RECURSIVE Strided(_, _, _, _)
Strided(s, i, n, acc) ==
  IF i > n THEN acc ELSE Strided(s, i + 8, n, FAdd(acc, s[i]))

PairwiseSum(s) ==
  LET n == Len(s)
      full == n - (n % 8)
      r(j) == Strided(s, j + 8, full, s[j])
  IN  IF n < 8 THEN SumFrom(s, 1, n, Zero)
      ELSE SumFrom(s, full + 1, n,
                   FAdd(FAdd(FAdd(r(1), r(2)), FAdd(r(3), r(4))),
                        FAdd(FAdd(r(5), r(6)), FAdd(r(7), r(8)))))

\* np.mean
Mean(s) == FDiv(PairwiseSum(s), FromInt(Len(s)))

\* np.std: the root of the mean of the squared distances from the mean.
Std(s) ==
  LET mu == Mean(s)
      square(v) == LET x == FSub(v, mu) IN FMul(x, x)
  IN  FSqrt(Mean(MapSeq([v \in Values(s) |-> square(v)], s)))

(***************************************************************************)
(* predict: the body of the loop over COLUMN_MAPPING for one parameter.    *)
(* `outcome` is what the opaque model does when invoked: it raises, or it  *)
(* returns an array of shape (1, k).                                       *)
(***************************************************************************)
\* The entry of a parameter without data or model; the error text is the
\* f-string 'Data or model not found for {param}', kept as its two parts.
NotFoundMarker(param) == [error |-> <<"Data or model not found for ", param>>]

ErrorMarker(param, msg) ==
  [status |-> "error", display_name |-> PARAM_NAMES[param], error |-> msg]

\* max(current_value, 1): the second argument only when it is the greater.
MaxOf(x, y) == IF BLess(x, y) THEN y ELSE x

\* A variant of the statistics in which equal values count as a rise.
StatisticsNonStrict(forecast_values, current_value) ==
  LET last == forecast_values[Len(forecast_values)]
      hi   == SeqMax(forecast_values)
      lo   == SeqMin(forecast_values)
  IN  [mean  |-> Round(Mean(forecast_values), 3),
       min   |-> Round(lo, 3),
       max   |-> Round(hi, 3),
       std   |-> Round(Std(forecast_values), 3),
       range |-> Round(FSub(hi, lo), 3),
       trend |-> IF BLess(last, current_value) THEN "Decreasing" ELSE "Increasing",
       trend_strength |->
         Round(FDiv(BAbs(FSub(last, current_value)),
                    MaxOf(current_value, FromInt(1))), 2)]

\* A variant of the statistics that guards the division against a current
\* value of zero only.
StatisticsZeroGuard(forecast_values, current_value) ==
  LET last == forecast_values[Len(forecast_values)]
      hi   == SeqMax(forecast_values)
      lo   == SeqMin(forecast_values)
  IN  [mean  |-> Round(Mean(forecast_values), 3),
       min   |-> Round(lo, 3),
       max   |-> Round(hi, 3),
       std   |-> Round(Std(forecast_values), 3),
       range |-> Round(FSub(hi, lo), 3),
       trend |-> IF BLess(current_value, last) THEN "Increasing" ELSE "Decreasing",
       trend_strength |->
         Round(FDiv(BAbs(FSub(last, current_value)),
                    IF current_value = Zero THEN FromInt(1) ELSE current_value), 2)]

\* The statistics of the forecast values, a non-empty sequence of floats.
\* The trend labels are written without the pictograph that precedes them.
Statistics(forecast_values, current_value) ==
  LET last == forecast_values[Len(forecast_values)]
      hi   == SeqMax(forecast_values)
      lo   == SeqMin(forecast_values)
  IN  [mean  |-> Round(Mean(forecast_values), 3),
       min   |-> Round(lo, 3),
       max   |-> Round(hi, 3),
       std   |-> Round(Std(forecast_values), 3),
       range |-> Round(FSub(hi, lo), 3),
       trend |-> IF BLess(current_value, last) THEN "Increasing" ELSE "Decreasing",
       trend_strength |->
         Round(FDiv(BAbs(FSub(last, current_value)),
                    MaxOf(current_value, FromInt(1))), 2)]

\* The steps after a successful model call.
ForecastRecord(scalers, param, raw_data, forecast_normalized) ==
  LET forecast == denormalize_data(scalers, param, forecast_normalized)
  IN  IF IsRaised(forecast) THEN ErrorMarker(param, forecast.error)
      ELSE LET current_value   == raw_data[Len(raw_data)]
               forecast_values == FirstN(forecast.value, FORECAST_STEPS)
           IN  IF Len(forecast_values) = 0
               THEN ErrorMarker(param, "list index out of range")
               ELSE [status |-> "success",
                     display_name |-> PARAM_NAMES[param],
                     current_value |-> Round(current_value, 3),
                     forecast |-> RoundEach(forecast_values, 3),
                     statistics |-> Statistics(forecast_values, current_value)]

\* A variant of the test at the head of the loop body without the check
\* that a model is loaded.
SkippedByColumn(df, models, param) ==
  COLUMN_MAPPING[param] \notin df.columns

\* The test at the head of the loop body: the parameter is passed over when
\* its column was not fetched or no model is loaded for it.
Skipped(df, models, param) ==
  COLUMN_MAPPING[param] \notin df.columns \/ param \notin DOMAIN models

\* A variant that records nothing for a parameter that is passed over.
RecordSkippedNothing(entries, param) == entries

\* The entry written for a parameter that is passed over.
RecordSkipped(entries, param) == (param :> NotFoundMarker(param)) @@ entries

\* A variant without the inner except clause: what is raised in the loop
\* body leaves the loop.
Uncaught(param, outcome) == outcome

\* The inner except clause: the entry written for what the loop body raised.
Caught(param, outcome) == ErrorMarker(param, outcome.error)

(***************************************************************************)
(* State.  reply is what the last step returned (None for a step that      *)
(* returns nothing); probe records the inputs of the operation that        *)
(* returned and what it attempted; threads holds the local variables of    *)
(* the handlers that are under way.                                        *)
(***************************************************************************)
VARIABLES supabase, store, artifacts, MODELS, MODEL_INFO, SCALERS,
          reply, probe, batches, fsChanges, threads

vars == <<supabase, store, artifacts, MODELS, MODEL_INFO, SCALERS,
          reply, probe, batches, fsChanges, threads>>

\* The module-level state right after import.
Constructed ==
  /\ MODELS = <<>>
  /\ MODEL_INFO = <<>>
  /\ SCALERS = <<>>
  /\ reply = None
  /\ probe = [op |-> "import"]
  /\ batches = 0
  /\ fsChanges = 0
  /\ threads = <<>>

\* A step that returns nothing to a caller.
Silent ==
  /\ reply' = None
  /\ probe' = [op |-> "step"]

(***************************************************************************)
(* The environment: sensors append readings, model files change on disk.   *)
(***************************************************************************)
ingest ==
  /\ batches < MaxBatches
  /\ store' = store \o Readings(Len(store), Batch(batches + 1).n,
                                 Batch(batches + 1).kind)
  /\ batches' = batches + 1
  /\ Silent
  /\ UNCHANGED <<threads, supabase, artifacts, MODELS, MODEL_INFO, SCALERS, fsChanges>>

artifact_change ==
  /\ fsChanges < MaxFsChanges
  /\ \E param \in Params, a \in ArtifactStates :
       /\ a # artifacts[param]
       /\ artifacts' = [artifacts EXCEPT ![param] = a]
  /\ fsChanges' = fsChanges + 1
  /\ reply' = None
  /\ probe' = [op |-> "artifact_change"]
  /\ UNCHANGED <<threads, supabase, store, MODELS, MODEL_INFO, SCALERS, batches>>

(***************************************************************************)
(* load_pretrained_models: the loop over MODEL_MAPPING, then the scaler    *)
(* fit.                                                                    *)
(***************************************************************************)
load_pretrained_models ==
  /\ \E reachable \in BOOLEAN :
       LET reg == LoadFrom([models |-> MODELS, info |-> MODEL_INFO], artifacts, 1)
           fit == fit_scalers_from_supabase(SCALERS, supabase, reachable, store)
       IN  /\ MODELS' = reg.models
           /\ MODEL_INFO' = reg.info
           /\ SCALERS' = fit.scalers
           /\ probe' = [op |-> "load_pretrained_models",
                        first |-> DOMAIN MODELS = {} /\ DOMAIN MODEL_INFO = {},
                        files |-> artifacts,
                        reachable |-> reachable,
                        fitted |-> fit.result]
  /\ reply' = None
  /\ UNCHANGED <<threads, supabase, store, artifacts, batches, fsChanges>>

\* The main block: the models are loaded and the scalers fitted once, before
\* the server starts.
startup ==
  /\ DOMAIN MODEL_INFO = {}
  /\ load_pretrained_models

(***************************************************************************)
(* POST /api/predict.                                                      *)
(***************************************************************************)
Flat(k, q) == Table([i \in 1..k |-> q])

\* What an opaque model may do when invoked: raise, or return an array of
\* shape (1, k) with fewer values than the horizon, as many, or more.
ModelBehaviours ==
  [raises  |-> Raise("RuntimeError", "model failure"),
   nothing |-> Return(<<Flat(0, FromRat(1, 2))>>),
   level   |-> Return(<<Flat(FORECAST_STEPS, FromRat(1, 2))>>),
   short   |-> Return(<<Flat(3, FromRat(1, 2))>>),
   long    |-> Return(<<Table([i \in 1..(FORECAST_STEPS + 2) |-> FromRat(i, 12)])>>)]

\* The behaviours every model is tried with.  A request that invokes a single
\* model tries it with all of ModelBehaviours.
BasicBehaviours == {"raises", "level"}

BehavioursOf(invoked) ==
  IF Cardinality(invoked) = 1 THEN DOMAIN ModelBehaviours ELSE BasicBehaviours

Failure(op, code, msg) ==
  [op |-> op, code |-> code, success |-> FALSE, error |-> msg]

\* The reply once the loop is over.  An exception that escapes the loop body
\* reaches the handler's outer except clause.
Envelope(df, entries) ==
  IF \E p \in DOMAIN entries : IsRaised(entries[p])
  THEN Failure("predict", 500,
               (CHOOSE e \in {entries[p] : p \in DOMAIN entries} : IsRaised(e)).error)
  ELSE [op |-> "predict", code |-> 200, success |-> TRUE,
        data_points |-> Len(df.rows),
        input_steps |-> INPUT_STEPS,
        forecast_steps |-> FORECAST_STEPS,
        data_source |-> "supabase",
        predictions |-> entries]

\* MODELS[param].predict(sequence): what the model does, or the KeyError of
\* the lookup, whose text is the key in quotes.
Invoke(models, param, behaviour) ==
  IF param \in DOMAIN models THEN ModelBehaviours[behaviour]
  ELSE Raise("KeyError", <<"'", param, "'">>)

(***************************************************************************)
(* The server handles each request in a thread of its own (app.run), and   *)
(* the handler of predict waits for the database and for the models, so    *)
(* requests overlap.  The handler is split at its accesses to SCALERS: the *)
(* test 'param not in SCALERS', the assignment of a fitted scaler, the     *)
(* read for the transform and the read for the inverse transform.  What it *)
(* computes on local values in between belongs to the step of the access   *)
(* before it (MODELS is not written while requests are served).  A thread  *)
(* exists from the moment its handler has read the table until the handler *)
(* returns; the step that ends the loop leaves the reply.                  *)
(***************************************************************************)
\* The request threads, in the order in which they are started.
RequestOrder == <<"r1", "r2">>

RequestThreads == {RequestOrder[i] : i \in 1..Len(RequestOrder)}

\* The parameter a thread is working on.
Current(t) == ParamOrder[threads[t].k]

\* normalize_data, the assignment of the lazily fitted scaler.
LazyFit(scalers, param, data) == (param :> MinMaxScalerFit(data)) @@ scalers

\* The loop of predict from its head for parameter k up to the next access
\* to SCALERS, or to the reply when the loop is over.  th holds the request,
\* df and, per parameter settled so far, the entry, the steps attempted, what
\* the model did and the scalers used.
RECURSIVE Proceed(_, _)
Proceed(th, k) ==
  IF k > Len(ParamOrder)
  THEN [pc |-> "done",
        reply |-> Envelope(th.df, th.entries),
        request |-> [newest_fetched |-> th.df.rows[Len(th.df.rows)].datetime,
                     steps |-> th.steps, outcomes |-> th.outcomes,
                     used |-> th.used] @@ th.request]
  ELSE LET param == ParamOrder[k]
           raw   == AsFloat(Column(th.df, COLUMN_MAPPING[param]))
           local == [request |-> th.request, df |-> th.df,
                     outcomes |-> th.outcomes, used |-> th.used]
       IN  IF Skipped(th.df, MODELS, param)
           THEN Proceed([entries |-> RecordSkipped(th.entries, param),
                         steps |-> (param :> {}) @@ th.steps] @@ local, k + 1)
           ELSE IF IsRaised(raw)
           THEN Proceed([entries |-> (param :> Caught(param, raw)) @@ th.entries,
                         steps |-> (param :> {}) @@ th.steps] @@ local, k + 1)
           ELSE [pc |-> "normalize_test", k |-> k, raw_data |-> raw.value,
                 entries |-> th.entries, steps |-> th.steps] @@ local

\* Thread t goes on as `next`; a handler that returns leaves its reply and
\* its thread ends.
Continue(t, next) ==
  IF next.pc = "done"
  THEN /\ threads' = [u \in DOMAIN threads \ {t} |-> threads[u]]
       /\ reply' = next.reply
       /\ probe' = next.request
  ELSE /\ threads' = (t :> next) @@ threads
       /\ Silent

\* The thread that runs load_pretrained_models before the server starts.
StartupThread == "startup"

\* The server accepts requests once load_pretrained_models has returned: the
\* models are loaded (every parameter has an entry in MODEL_INFO from then
\* on) and the bulk fit of the scalers is over.
Serving ==
  /\ DOMAIN MODEL_INFO # {}
  /\ StartupThread \in DOMAIN threads => threads[StartupThread].pc = "done"

\* predict up to the loop: the checks and the fetch.
predict_begin(t) ==
  /\ Serving
  /\ t \notin DOMAIN threads
  /\ \A i \in 1..Len(RequestOrder) :
       RequestOrder[i] = t => \A j \in 1..(i - 1) : RequestOrder[j] \in DOMAIN threads
  /\ \E reachable \in BOOLEAN :
       LET df == fetch_sensor_data(supabase, reachable, store, PREDICT_FETCH_LIMIT)
           request == [op |-> "predict", reachable |-> reachable,
                       table |-> store, scalers_before |-> SCALERS]
       IN  Continue(t,
             IF ~supabase
             THEN [pc |-> "done", request |-> request,
                   reply |-> Failure("predict", 500, "Supabase not configured")]
             ELSE IF Cardinality(DOMAIN MODELS) = 0
             THEN [pc |-> "done", request |-> request,
                   reply |-> Failure("predict", 500,
                                     "No models loaded. Check model files.")]
             ELSE IF IsNone(df) \/ Len(df.rows) = 0
             THEN [pc |-> "done", request |-> request,
                   reply |-> Failure("predict", 400, "No data available in Supabase")]
             ELSE Proceed([request |-> request, df |-> df, entries |-> <<>>,
                           steps |-> <<>>, outcomes |-> <<>>, used |-> <<>>], 1))
  /\ UNCHANGED <<supabase, store, artifacts, MODELS, MODEL_INFO, SCALERS,
                 batches, fsChanges>>

\* normalize_data: the test 'param not in SCALERS'.  The fetched data has at
\* least one row.
normalize_test(t) ==
  /\ t \in DOMAIN threads /\ threads[t].pc = "normalize_test"
  /\ threads' = [threads EXCEPT ![t].pc =
                   IF Current(t) \notin DOMAIN SCALERS
                   THEN "normalize_fit" ELSE "normalize_transform"]
  /\ Silent
  /\ UNCHANGED <<supabase, store, artifacts, MODELS, MODEL_INFO, SCALERS,
                 batches, fsChanges>>

\* normalize_data: the scaler is fitted on the data and stored.
normalize_fit(t) ==
  /\ t \in DOMAIN threads /\ threads[t].pc = "normalize_fit"
  /\ SCALERS' = LazyFit(SCALERS, Current(t), threads[t].raw_data)
  /\ threads' = [threads EXCEPT ![t].pc = "normalize_transform"]
  /\ Silent
  /\ UNCHANGED <<supabase, store, artifacts, MODELS, MODEL_INFO,
                 batches, fsChanges>>

\* normalize_data: SCALERS[param] is read and the data transformed; then the
\* window is built and the model invoked, which does one of `behaviours`.
normalize_transform(t, behaviours) ==
  /\ t \in DOMAIN threads /\ threads[t].pc = "normalize_transform"
  /\ LET th       == threads[t]
         param    == Current(t)
         scaler   == SCALERS[param]
         sequence == create_sequences(ScalerTransform(scaler, th.raw_data),
                                      INPUT_STEPS)
         local    == [request |-> th.request, df |-> th.df, used |-> th.used]
         settle(entry, attempted, outcomes) ==
           Proceed([entries |-> (param :> entry) @@ th.entries,
                    steps |-> (param :> attempted) @@ th.steps,
                    outcomes |-> outcomes] @@ local, th.k + 1)
     IN  IF IsNone(sequence)
         THEN Continue(t, settle([error |-> "Insufficient data for sequence"],
                                 {"normalize", "sequence"}, th.outcomes))
         ELSE IF IsRaised(sequence)
         THEN Continue(t, settle(Caught(param, sequence),
                                 {"normalize", "sequence"}, th.outcomes))
         ELSE \E behaviour \in behaviours :
                LET outcome == Invoke(MODELS, param, behaviour)
                IN  Continue(t,
                      IF IsRaised(outcome)
                      THEN settle(Caught(param, outcome),
                                  {"normalize", "sequence", "invoke"},
                                  (param :> behaviour) @@ th.outcomes)
                      ELSE [pc |-> "denormalize", k |-> th.k,
                            raw_data |-> th.raw_data,
                            entries |-> th.entries, steps |-> th.steps,
                            outcomes |-> (param :> behaviour) @@ th.outcomes,
                            normalized_with |-> scaler,
                            forecast_normalized |-> outcome.value[1]] @@ local)
  /\ UNCHANGED <<supabase, store, artifacts, MODELS, MODEL_INFO, SCALERS,
                 batches, fsChanges>>

\* denormalize_data and the record built from its result; used notes the
\* scaler each of the two conversions worked with.
denormalize(t) ==
  /\ t \in DOMAIN threads /\ threads[t].pc = "denormalize"
  /\ LET th    == threads[t]
         param == Current(t)
     IN  Continue(t,
           Proceed([request |-> th.request, df |-> th.df,
                    entries |-> (param :> ForecastRecord(SCALERS, param, th.raw_data,
                                                         th.forecast_normalized))
                                  @@ th.entries,
                    steps |-> (param :> {"normalize", "sequence", "invoke",
                                         "denormalize"}) @@ th.steps,
                    outcomes |-> th.outcomes,
                    used |-> (param :> [normalized_with |-> th.normalized_with,
                                        denormalized_with |->
                                          IF param \in DOMAIN SCALERS
                                          THEN SCALERS[param] ELSE None])
                               @@ th.used],
                   th.k + 1))
  /\ UNCHANGED <<supabase, store, artifacts, MODELS, MODEL_INFO, SCALERS,
                 batches, fsChanges>>

\* POST /api/predict served by thread t: one step of the handler.
predict(t, behaviours) ==
  \/ predict_begin(t)
  \/ normalize_test(t)
  \/ normalize_fit(t)
  \/ normalize_transform(t, behaviours)
  \/ denormalize(t)

(***************************************************************************)
(* GET /api/historical?parameter=..&limit=..                               *)
(***************************************************************************)
HistoricalColumns ==
  [nitrogen |-> "nitrogen", N |-> "nitrogen",
   phosphorus |-> "phosphorus", P |-> "phosphorus",
   potassium |-> "potassium", K |-> "potassium", moisture |-> "potassium",
   pH |-> "ph", ph |-> "ph"]

\* col_mapping.get(param, COLUMN_MAPPING.get(param, 'nitrogen'))
HistoricalColumn(param) ==
  IF param \in DOMAIN HistoricalColumns THEN HistoricalColumns[param]
  ELSE IF param \in DOMAIN COLUMN_MAPPING THEN COLUMN_MAPPING[param]
  ELSE "nitrogen"

\* Parameter names and limits a client may send (limit >= 1).
RequestedParameters == {"P", "moisture", "zinc"}

RequestedLimits == {1, 100}

get_historical(parameters, limits) ==
  \E param \in parameters, limit \in limits, reachable \in BOOLEAN :
    LET df == fetch_sensor_data(supabase, reachable, store, limit * 2)
        col_name == HistoricalColumn(param)
        hist_df == LastN(df.rows, limit)
    IN  /\ reply' =
             IF ~supabase
             THEN Failure("get_historical", 500, "Supabase not configured")
             ELSE IF IsNone(df) \/ Len(df.rows) = 0
             THEN Failure("get_historical", 404, "No data available in Supabase")
             ELSE IF col_name \notin df.columns
             THEN Failure("get_historical", 404, <<"Column ", col_name, " not found">>)
             ELSE [op |-> "get_historical", code |-> 200, success |-> TRUE,
                   parameter |-> param,
                   display_name |-> IF param \in DOMAIN PARAM_NAMES
                                    THEN PARAM_NAMES[param] ELSE param,
                   limit |-> limit,
                   total_rows |-> Len(df.rows),
                   returned_rows |-> Len(hist_df),
                   values |-> [i \in 1..Len(hist_df) |-> hist_df[i][col_name]],
                   indices |-> [i \in 1..Len(hist_df) |-> i - 1]]
        /\ probe' = [op |-> "get_historical", reachable |-> reachable,
                     parameter |-> param, limit |-> limit]
        /\ UNCHANGED <<threads, supabase, store, artifacts, MODELS, MODEL_INFO, SCALERS,
                       batches, fsChanges>>

(***************************************************************************)
(* GET /api/model-status and GET /api/health.                              *)
(***************************************************************************)
model_status ==
  /\ reply' = [op |-> "model_status", code |-> 200, success |-> TRUE,
               total_models |-> Len(ParamOrder),
               loaded_models |-> Cardinality(DOMAIN MODELS),
               models |-> MODEL_INFO,
               input_steps |-> INPUT_STEPS, forecast_steps |-> FORECAST_STEPS]
  /\ probe' = [op |-> "model_status"]
  /\ UNCHANGED <<threads, supabase, store, artifacts, MODELS, MODEL_INFO, SCALERS,
                 batches, fsChanges>>

HealthStatus(models) ==
  IF Cardinality(DOMAIN models) > 0 THEN "healthy" ELSE "degraded"

health_check ==
  /\ reply' = [op |-> "health_check", code |-> 200, success |-> TRUE,
               status |-> HealthStatus(MODELS),
               models_loaded |-> Cardinality(DOMAIN MODELS),
               scalers_fit |-> Cardinality(DOMAIN SCALERS),
               supabase_connected |-> supabase]
  /\ probe' = [op |-> "health_check"]
  /\ UNCHANGED <<threads, supabase, store, artifacts, MODELS, MODEL_INFO, SCALERS,
                 batches, fsChanges>>

(***************************************************************************)
(* The service: the startup, then requests served in threads while         *)
(* readings arrive; the handlers of the status and the historical requests *)
(* read the state at one point and are one step each.                      *)
(***************************************************************************)
\* The model files on disk when the service starts: none, or the files of
\* these parameters.
StartupModels == {{}, {"moisture"}, {"nitrogen", "phosphorus"}}

StartupArtifacts ==
  {[p \in Params |-> IF p \in present THEN "present" ELSE "missing"] :
     present \in StartupModels}

Init ==
  /\ Constructed
  /\ supabase \in BOOLEAN
  /\ store = <<>>
  /\ artifacts \in StartupArtifacts

Next ==
  \/ startup
  \/ ingest
  \/ \E t \in RequestThreads : predict(t, BehavioursOf(DOMAIN MODELS))
  \/ Serving /\ model_status
  \/ Serving /\ health_check
  \/ Serving /\ get_historical({"P"}, {1})

Spec == Init /\ [][Next]_vars

(***************************************************************************)
(* The read paths over a long table: the historical series and the series  *)
(* a forecast is made from.                                                *)
(***************************************************************************)
LongTables == {250, PREDICT_FETCH_LIMIT + 1}

InitStore ==
  /\ Constructed
  /\ supabase = TRUE
  /\ store \in {Readings(0, n, "numeric") : n \in LongTables}
  /\ artifacts = [p \in Params |-> IF p = "pH" THEN "present" ELSE "missing"]

NextStore ==
  \/ startup
  \/ \E t \in RequestThreads : predict(t, {"level"})
  \/ Serving /\ get_historical(RequestedParameters, RequestedLimits)

SpecStore == InitStore /\ [][NextStore]_vars

(***************************************************************************)
(* The registry: the startup over every mix of model files, which may      *)
(* change before and after it.                                             *)
(***************************************************************************)
InitRegistry ==
  /\ Constructed
  /\ supabase = TRUE
  /\ store = Readings(0, 1, "numeric")
  /\ artifacts \in [Params -> ArtifactStates]

NextRegistry ==
  \/ startup
  \/ artifact_change
  \/ Serving /\ model_status
  \/ Serving /\ health_check

SpecRegistry == InitRegistry /\ [][NextRegistry]_vars

(***************************************************************************)
(* The scaler store driven directly: calls of normalize_data,              *)
(* denormalize_data and fit_scalers_from_supabase.  A denormalize call may *)
(* be handed what the normalize call before it returned.                   *)
(***************************************************************************)
\* Raw series: none, a constant one, one with a range, and a near constant
\* one, 1 and the float next to it, 1 + 2^-52.
SampleSeries ==
  {<<>>, <<FromInt(2)>>, <<FromInt(1), FromInt(6)>>,
   <<FromInt(1), Binary(1, <<1, 0, 0, 128>>, -52)>>}

NormalizedSamples ==
  {<<>>, <<FromRat(1, 2)>>, <<Zero, FromInt(1), FromRat(3, 2)>>}

\* The parameters the calls are made for: one whose column the bulk fit can
\* read in every table, and one whose column holds text in some.
CalledParams == {"nitrogen", "moisture"}

call_normalize_data ==
  \E param \in CalledParams, data \in SampleSeries :
    LET res == normalize_data(SCALERS, param, data)
    IN  /\ SCALERS' = res.scalers
        /\ reply' = res.result
        /\ probe' = [op |-> "normalize_data", param |-> param, data |-> data,
                     scalers_before |-> SCALERS]
        /\ UNCHANGED <<threads, supabase, store, artifacts, MODELS, MODEL_INFO,
                       batches, fsChanges>>

call_denormalize_data ==
  LET chained == probe.op = "normalize_data" /\ ~IsRaised(reply)
  IN  \E param \in CalledParams,
         normalized_data \in NormalizedSamples
                               \cup (IF chained THEN {reply.value} ELSE {}) :
        /\ reply' = denormalize_data(SCALERS, param, normalized_data)
        /\ probe' = [op |-> "denormalize_data", param |-> param,
                     normalized_data |-> normalized_data,
                     scalers_before |-> SCALERS,
                     origin |-> IF chained /\ normalized_data = reply.value
                                THEN [param |-> probe.param, data |-> probe.data]
                                ELSE None]
        /\ UNCHANGED <<threads, supabase, store, artifacts, MODELS, MODEL_INFO, SCALERS,
                       batches, fsChanges>>

call_fit_scalers_from_supabase ==
  \E reachable \in BOOLEAN :
    LET fit == fit_scalers_from_supabase(SCALERS, supabase, reachable, store)
    IN  /\ SCALERS' = fit.scalers
        /\ reply' = Return(fit.result)
        /\ probe' = [op |-> "fit_scalers_from_supabase", reachable |-> reachable,
                     scalers_before |-> SCALERS]
        /\ UNCHANGED <<threads, supabase, store, artifacts, MODELS, MODEL_INFO,
                       batches, fsChanges>>

InitScaler ==
  /\ Constructed
  /\ supabase = TRUE
  /\ store \in {<<>>, Readings(0, 3, "text"), Readings(0, 3, "garbled")}
  /\ artifacts = [p \in Params |-> "missing"]

NextScaler ==
  \/ call_normalize_data
  \/ call_denormalize_data
  \/ call_fit_scalers_from_supabase

SpecScaler == InitScaler /\ [][NextScaler]_vars

(***************************************************************************)
(* create_sequences called on series around the window length.             *)
(***************************************************************************)
WindowLengths == {1, 2, INPUT_STEPS}

\* A series of n values; the value tells the position.
Series(n, base) == Table([i \in 1..n |-> Binary(1, NFromInt(base + i), -2)])

call_create_sequences ==
  \E n \in 0..(INPUT_STEPS + MaxSlack), base \in {0, 5}, input_steps \in WindowLengths :
    /\ reply' = create_sequences(Series(n, base), input_steps)
    /\ probe' = [op |-> "create_sequences", data |-> Series(n, base),
                 input_steps |-> input_steps]
    /\ UNCHANGED <<threads, supabase, store, artifacts, MODELS, MODEL_INFO, SCALERS,
                   batches, fsChanges>>

InitSequences ==
  /\ Constructed
  /\ supabase = TRUE
  /\ store = <<>>
  /\ artifacts = [p \in Params |-> "missing"]

NextSequences == call_create_sequences

SpecSequences == InitSequences /\ [][NextSequences]_vars

(***************************************************************************)
(* Properties.                                                             *)
(***************************************************************************)
Replied(op) == "op" \in DOMAIN reply /\ reply.op = op

HasStatus(e, status) == "status" \in DOMAIN e /\ e.status = status

\* The cells of a parameter's column in the rows the predict request that
\* returned fetched from the table as it was then.
FetchedCells(p) ==
  Column(DataFrame(QueryRows(probe.table, PREDICT_FETCH_LIMIT)), COLUMN_MAPPING[p])

\* The parameter's model is loaded and its column has enough numeric data.
CanForecast(p) ==
  /\ p \in DOMAIN MODELS
  /\ Len(FetchedCells(p)) >= INPUT_STEPS
  /\ \A i \in 1..Len(FetchedCells(p)) : IsNumeric(FetchedCells(p)[i])

\* The data source answered the request with rows and at least one model is
\* loaded.
Servable ==
  supabase /\ probe.reachable /\ Len(probe.table) > 0 /\ DOMAIN MODELS # {}

\* C1: in a predict request that can be served, whatever the loaded models
\* do, a parameter whose model raises gets an error marker carrying the
\* message, every parameter with a loaded model and enough data whose model
\* returns a forecast gets a success record, and the envelope has
\* success = TRUE.
FaultIsolation ==
  (Replied("predict") /\ Servable) =>
    /\ reply.success
    /\ \A p \in Params :
         CanForecast(p) =>
           /\ p \in DOMAIN probe.outcomes
           /\ probe.outcomes[p] = "raises" =>
                reply.predictions[p] =
                  [status |-> "error", display_name |-> PARAM_NAMES[p],
                   error |-> ModelBehaviours.raises.error]
           /\ probe.outcomes[p] = "level" =>
                /\ HasStatus(reply.predictions[p], "success")
                /\ Len(reply.predictions[p].forecast) = FORECAST_STEPS

\* Two models are loaded and have enough data: the model of the parameter
\* that comes first in the loop raised and the other delivered its forecast.
FaultIsolationWitness ==
  /\ Replied("predict") /\ reply.success
  /\ \E p, q \in DOMAIN MODELS :
       /\ CanForecast(p) /\ CanForecast(q)
       /\ \E i, j \in 1..Len(ParamOrder) :
            i < j /\ ParamOrder[i] = p /\ ParamOrder[j] = q
       /\ probe.outcomes[p] = "raises"
       /\ HasStatus(reply.predictions[p], "error")
       /\ probe.outcomes[q] = "level"
       /\ HasStatus(reply.predictions[q], "success")

\* C2: a predict reply has success = FALSE exactly when the data source is
\* not configured, not reachable or has no rows, or no model is loaded;
\* every other reply has success = TRUE and one entry, a forecast record or
\* an error marker, under each of the four parameter keys.
EnvelopePolicy ==
  Replied("predict") =>
    /\ reply.success = Servable
    /\ reply.success =>
         /\ DOMAIN reply.predictions = Params
         /\ \A p \in Params :
              \/ HasStatus(reply.predictions[p], "success")
              \/ "error" \in DOMAIN reply.predictions[p]

\* A served request in which a parameter has no model, the model of another
\* raised and the forecast of a third succeeded.
EnvelopePolicyWitness ==
  /\ Replied("predict") /\ reply.success
  /\ \E p \in Params \ DOMAIN MODELS :
       reply.predictions[p] = NotFoundMarker(p)
  /\ \E p \in DOMAIN probe.outcomes :
       probe.outcomes[p] = "raises" /\ HasStatus(reply.predictions[p], "error")
  /\ \E p \in Params : HasStatus(reply.predictions[p], "success")

\* C10: in every predict request a parameter without a loaded model keeps
\* its scaler slot as it was, and in a served request its entry is the error
\* marker and no step (normalize, sequence, invoke) was attempted for it.
NotLoadedNeverAttempted ==
  Replied("predict") =>
    \A p \in Params \ DOMAIN MODELS :
      /\ (p \in DOMAIN SCALERS) = (p \in DOMAIN probe.scalers_before)
      /\ p \in DOMAIN SCALERS => SCALERS[p] = probe.scalers_before[p]
      /\ reply.success =>
           /\ probe.steps[p] = {}
           /\ p \notin DOMAIN probe.outcomes
           /\ p \in DOMAIN reply.predictions
           /\ reply.predictions[p] = [error |-> <<"Data or model not found for ", p>>]

\* A served request with enough rows for a window in which a parameter
\* without a model has no scaler, while another parameter was forecast.
NotLoadedNeverAttemptedWitness ==
  /\ Replied("predict") /\ reply.success
  /\ Len(probe.table) >= INPUT_STEPS
  /\ \E p \in Params \ DOMAIN MODELS :
       /\ p \notin DOMAIN SCALERS
       /\ reply.predictions[p] = [error |-> <<"Data or model not found for ", p>>]
  /\ \E q \in DOMAIN MODELS :
       /\ "invoke" \in probe.steps[q]
       /\ HasStatus(reply.predictions[q], "success")

Min(a, b) == IF a < b THEN a ELSE b

\* C3: a successful get_historical reply for a store of N rows and a limit L
\* carries the last min(L, N) values of the store's column in chronological
\* order, with indices 0..min(L, N)-1.
HistoricalTail ==
  (Replied("get_historical") /\ reply.success) =>
    LET n   == Min(probe.limit, Len(store))
        col == HistoricalColumn(probe.parameter)
    IN  /\ reply.values = [i \in 1..n |-> store[Len(store) - n + i][col]]
        /\ reply.indices = [i \in 1..n |-> i - 1]

\* The store holds 250 rows, the limit is 100, and the reply carries the
\* values of the rows at positions 100..199 (counted from 0).
HistoricalTailMissed ==
  /\ Replied("get_historical") /\ reply.success
  /\ Len(store) = 250 /\ probe.limit = 100
  /\ reply.indices = [i \in 1..100 |-> i - 1]
  /\ reply.values =
       [i \in 1..100 |-> store[100 + i][HistoricalColumn(probe.parameter)]]
  /\ reply.values #
       [i \in 1..100 |-> store[150 + i][HistoricalColumn(probe.parameter)]]

\* C4: in a served predict request the newest row handed to the predictions
\* is the newest row of the store, and the current_value of every forecast
\* record is the value of the parameter's column in the newest row of the
\* store.
ForecastFromNewest ==
  (Replied("predict") /\ reply.success) =>
    /\ probe.newest_fetched = probe.table[Len(probe.table)].datetime
    /\ \A p \in Params :
         HasStatus(reply.predictions[p], "success") =>
           reply.predictions[p].current_value =
             Rat(probe.table[Len(probe.table)][COLUMN_MAPPING[p]].v, 1)

\* The store holds one row more than the fetch limit and the forecast record
\* reports the value of row 500, not of the newest row 501.
ForecastFromStale ==
  /\ Replied("predict") /\ reply.success
  /\ Len(probe.table) = PREDICT_FETCH_LIMIT + 1
  /\ probe.newest_fetched = probe.table[PREDICT_FETCH_LIMIT].datetime
  /\ \E p \in Params :
       /\ HasStatus(reply.predictions[p], "success")
       /\ reply.predictions[p].current_value =
            Rat(probe.table[PREDICT_FETCH_LIMIT][COLUMN_MAPPING[p]].v, 1)
       /\ reply.predictions[p].current_value #
            Rat(probe.table[Len(probe.table)][COLUMN_MAPPING[p]].v, 1)

\* The status a first load should give a parameter, by what happened to its
\* artifact.
ExpectedStatus(artifact) ==
  CASE artifact = "missing" -> "not_found"
    [] artifact \in {"corrupt", "removed_during_load"} -> "error"
    [] OTHER -> "loaded"

\* C9: after a load from an empty registry every parameter's status is
\* 'not_found' iff its artifact is missing, 'error' iff loading it raised and
\* 'loaded' otherwise, whatever happened to the other parameters, and the
\* health status is 'healthy' iff at least one parameter has status 'loaded'.
IndependentLoad ==
  (probe.op = "load_pretrained_models" /\ probe.first) =>
    /\ \A p \in Params :
         /\ p \in DOMAIN MODEL_INFO
         /\ MODEL_INFO[p].status = ExpectedStatus(probe.files[p])
    /\ (HealthStatus(MODELS) = "healthy")
         <=> (\E p \in Params : MODEL_INFO[p].status = "loaded")

\* A first load in which a load raised after the model was stored: no
\* parameter has status 'loaded' and the health status is 'healthy'.
ReadyWithoutLoaded ==
  /\ probe.op = "load_pretrained_models" /\ probe.first
  /\ \A p \in Params : MODEL_INFO[p].status = ExpectedStatus(probe.files[p])
  /\ \A p \in Params : MODEL_INFO[p].status # "loaded"
  /\ HealthStatus(MODELS) = "healthy"

\* C5: create_sequences returns None iff the series is shorter than the
\* window length; otherwise the window has shape (1, w, 1) and holds the last
\* w values of the series in order, so its last element is the series' last.
WindowIsTail ==
  probe.op = "create_sequences" =>
    LET data == probe.data
        w    == probe.input_steps
    IN  /\ IsNone(reply) <=> Len(data) < w
        /\ ~IsNone(reply) =>
             /\ Len(reply.window) = 1 /\ Len(reply.window[1]) = w
             /\ \A i \in 1..w : reply.window[1][i] = <<data[Len(data) - w + i]>>
             /\ reply.window[1][w][1] = data[Len(data)]

\* A window was cut from a series longer than the window.
WindowIsTailWitness ==
  /\ probe.op = "create_sequences"
  /\ probe.input_steps = INPUT_STEPS
  /\ Len(probe.data) > INPUT_STEPS
  /\ ~IsNone(reply)
  /\ reply.window[1][1] # <<probe.data[1]>>

\* The floating tolerance: 2^-40.
Tolerance == Binary(1, <<1>>, -40)

\* x and y differ by no more than the tolerance.
Near(x, y) == ~BLess(Tolerance, BAbs(BSub(x, y)))

\* y is a finite number and (x - lo) / (hi - lo) within the tolerance, where
\* the range hi - lo of a constant or near constant sample (one below
\* 10 * 2^-52) counts as one: y * range is within tolerance * range of
\* x - lo, in exact arithmetic.
IsMinMax(y, x, lo, hi) ==
  LET near  == Binary(1, <<5>>, -51)
      range == IF BLess(FSub(hi, lo), near) THEN FromInt(1) ELSE BSub(hi, lo)
  IN  /\ IsFinite(y)
      /\ ~BLess(BMul(Tolerance, range), BAbs(BSub(BMul(y, range), BSub(x, lo))))

\* The normalize_data call that returned did for its value vector x what a
\* lazy fit is to do: it stored a scaler with the min and max of x and
\* returned the values of x scaled by it, and the same call again returns the
\* same result and leaves the stored scaler as it is.
FittedLazily ==
  LET p     == probe.param
      x     == probe.data
      again == normalize_data(SCALERS, p, x)
  IN  /\ ~IsRaised(reply)
      /\ p \in DOMAIN SCALERS
      /\ SCALERS[p].data_min = SeqMin(x) /\ SCALERS[p].data_max = SeqMax(x)
      /\ Len(reply.value) = Len(x)
      /\ \A i \in 1..Len(x) :
           IsMinMax(reply.value[i], x[i], SeqMin(x), SeqMax(x))
      /\ again.result = reply
      /\ again.scalers = SCALERS

\* Every normalize_data call for a parameter without a stored scaler,
\* whatever the supplied values, stores a scaler with the min and max of the
\* values and returns the values scaled by it; the same call again returns
\* the same result and leaves the stored scaler as it is.
LazyFitAlways ==
  (/\ probe.op = "normalize_data"
   /\ probe.param \notin DOMAIN probe.scalers_before) => FittedLazily

\* C6: a normalize_data call for a parameter without a stored scaler and
\* with at least one value stores a scaler with the min and max of the
\* supplied values and returns the values scaled by it; the same call again
\* returns the same result and leaves the stored scaler as it is.  Called
\* with no value it raises ValueError and stores nothing, again and again.
LazyFitIdempotent ==
  (/\ probe.op = "normalize_data"
   /\ probe.param \notin DOMAIN probe.scalers_before) =>
    IF probe.data # <<>> THEN FittedLazily
    ELSE LET again == normalize_data(SCALERS, probe.param, probe.data)
         IN  /\ IsRaised(reply) /\ reply.raised = "ValueError"
             /\ SCALERS = probe.scalers_before
             /\ again.result = reply
             /\ again.scalers = SCALERS

\* A lazy fit on a series with a range: its least value is scaled to 0 and
\* its greatest to 1 within the tolerance.
LazyFitIdempotentWitness ==
  /\ probe.op = "normalize_data"
  /\ probe.param \notin DOMAIN probe.scalers_before
  /\ probe.param \in DOMAIN SCALERS
  /\ probe.data = <<FromInt(1), FromInt(6)>>
  /\ ~IsRaised(reply)
  /\ reply.value[1] = Zero
  /\ Near(reply.value[2], FromInt(1))

\* C7: a denormalize_data call for a parameter without a stored scaler
\* returns its input, raises nothing and leaves the parameter without a
\* scaler.
IdentityFallback ==
  (/\ probe.op = "denormalize_data"
   /\ probe.param \notin DOMAIN probe.scalers_before) =>
    /\ reply = Return(probe.normalized_data)
    /\ SCALERS = probe.scalers_before

\* The fallback on an empty and on a non-empty input.
IdentityFallbackWitness ==
  /\ probe.op = "denormalize_data"
  /\ probe.param \notin DOMAIN SCALERS
  /\ Len(probe.normalized_data) = 3
  /\ reply = Return(probe.normalized_data)

\* No division by zero took place.  The scale_ of every stored scaler is a
\* finite number, so the fit that computed it as 1 / range did not divide by
\* zero, and it is not zero, so the inverse transform does not divide by
\* zero; and every number a normalize_data or denormalize_data call returned
\* is finite, not the infinity or the not-a-number that a division by zero
\* leaves.
NoZeroDivisor ==
  /\ \A p \in DOMAIN SCALERS :
       /\ IsFinite(SCALERS[p].scale_) /\ SCALERS[p].scale_ # Zero
       /\ IsFinite(SCALERS[p].min_)
  /\ (probe.op \in {"normalize_data", "denormalize_data"} /\ ~IsRaised(reply)) =>
       \A i \in 1..Len(reply.value) : IsFinite(reply.value[i])

\* normalize_data raises for a value vector without values and for no other.
RaisesOnEmptyOnly ==
  probe.op = "normalize_data" => (IsRaised(reply) <=> probe.data = <<>>)

\* A denormalize_data call was handed what the normalize_data call before it
\* returned for the same parameter.
IsRoundTrip ==
  /\ probe.op = "denormalize_data"
  /\ ~IsNone(probe.origin)
  /\ probe.origin.param = probe.param

\* normalize_data returns for every value vector x, denormalize_data applied
\* to what it returned for the same parameter gives back x bit for bit, and
\* no division by zero occurs.
RoundTripExact ==
  /\ NoZeroDivisor
  /\ probe.op = "normalize_data" => ~IsRaised(reply)
  /\ IsRoundTrip => reply = Return(probe.origin.data)

\* C8: normalize_data returns for every value vector x with at least one
\* value (and raises ValueError for one without), denormalize_data applied to
\* what it returned for the same parameter gives back x within the floating
\* tolerance, and no division by zero occurs.
RoundTrip ==
  /\ NoZeroDivisor
  /\ RaisesOnEmptyOnly
  /\ IsRoundTrip =>
       /\ ~IsRaised(reply)
       /\ Len(reply.value) = Len(probe.origin.data)
       /\ \A i \in 1..Len(probe.origin.data) :
            Near(reply.value[i], probe.origin.data[i])

\* A round trip through a scaler fitted on a constant sample, with values
\* outside the fitted range.
RoundTripWitness ==
  /\ IsRoundTrip
  /\ SCALERS[probe.param].data_min = SCALERS[probe.param].data_max
  /\ \E i \in 1..Len(probe.origin.data) :
       probe.origin.data[i] # SCALERS[probe.param].data_min
  /\ reply = Return(<<FromInt(1), FromInt(6)>>)

(***************************************************************************)
(* The startup in steps and overlapping requests: load_pretrained_models   *)
(* loads the models and runs the loop of fit_scalers_from_supabase, one    *)
(* parameter per step; the server then serves requests in threads while    *)
(* readings arrive.                                                        *)
(***************************************************************************)
\* The models of these requests return a forecast.
ThreadBehaviours == {"level"}

\* A sensor appends one reading.
sensor_reading ==
  /\ DOMAIN MODEL_INFO # {}
  /\ Len(store) < INPUT_STEPS + MaxReadings
  /\ store' = Append(store, Row(Len(store) + 1, "peak"))
  /\ Silent
  /\ UNCHANGED <<threads, supabase, artifacts, MODELS, MODEL_INFO, SCALERS,
                 batches, fsChanges>>

\* load_pretrained_models up to its call of fit_scalers_from_supabase.
load_models ==
  /\ DOMAIN MODEL_INFO = {}
  /\ StartupThread \notin DOMAIN threads
  /\ LET reg == LoadFrom([models |-> MODELS, info |-> MODEL_INFO], artifacts, 1)
     IN  /\ MODELS' = reg.models
         /\ MODEL_INFO' = reg.info
  /\ threads' = (StartupThread :> [pc |-> "fetch"]) @@ threads
  /\ Silent
  /\ UNCHANGED <<supabase, store, artifacts, SCALERS, batches, fsChanges>>

\* fit_scalers_from_supabase: the fetch.
fit_begin ==
  /\ StartupThread \in DOMAIN threads /\ threads[StartupThread].pc = "fetch"
  /\ \E reachable \in BOOLEAN :
       LET df == fetch_sensor_data(supabase, reachable, store, FIT_FETCH_LIMIT)
       IN  threads' = [threads EXCEPT ![StartupThread] =
                         IF IsNone(df) THEN [pc |-> "done", result |-> FALSE]
                         ELSE [pc |-> "fit", df |-> df, k |-> 1]]
  /\ Silent
  /\ UNCHANGED <<supabase, store, artifacts, MODELS, MODEL_INFO, SCALERS,
                 batches, fsChanges>>

\* fit_scalers_from_supabase: one pass of the loop, or the return.
fit_step ==
  /\ StartupThread \in DOMAIN threads /\ threads[StartupThread].pc = "fit"
  /\ LET th == threads[StartupThread]
     IN  IF th.k > Len(ParamOrder)
         THEN /\ threads' = [threads EXCEPT ![StartupThread] =
                   [pc |-> "done", df |-> th.df,
                    result |-> Cardinality(DOMAIN SCALERS) > 0]]
              /\ UNCHANGED SCALERS
         ELSE /\ SCALERS' = FitOne(SCALERS, th.df, ParamOrder[th.k])
              /\ threads' = [threads EXCEPT ![StartupThread].k = th.k + 1]
  /\ Silent
  /\ UNCHANGED <<supabase, store, artifacts, MODELS, MODEL_INFO,
                 batches, fsChanges>>

InitThreads ==
  /\ Constructed
  /\ supabase = TRUE
  /\ store = Readings(0, INPUT_STEPS, "text")
  /\ artifacts = [p \in Params |-> IF p \in {"nitrogen", "phosphorus"}
                                   THEN "present" ELSE "missing"]

NextThreads ==
  \/ load_models
  \/ fit_begin
  \/ fit_step
  \/ sensor_reading
  \/ \E t \in RequestThreads : predict(t, ThreadBehaviours)

SpecThreads == InitThreads /\ [][NextThreads]_vars

\* The content of a parameter's slot of a scaler store.
Slot(scalers, q) == IF q \in DOMAIN scalers THEN scalers[q] ELSE None

\* Thread t takes a step that fits a scaler for parameter q.
FitsFor(t, q) ==
  /\ t \in DOMAIN threads
  /\ threads[t].pc \in {"normalize_fit", "fit"}
  /\ threads'[t] # threads[t]
  /\ ParamOrder[threads[t].k] = q

\* The column of parameter p in the table the bulk fit fetched holds
\* numbers only.
FitNumeric(p) ==
  \A i \in 1..Len(threads[StartupThread].df.rows) :
    IsNumeric(threads[StartupThread].df.rows[i][COLUMN_MAPPING[p]])

\* C11: a step changes the stored scaler of a parameter Q only if it is a
\* fit step (a pass of the bulk fit or a lazy fit) for Q itself, so no fit or
\* normalize operation for P touches the slot of Q # P under any
\* interleaving; and when the bulk fit has returned, every parameter with a
\* numeric column has a scaler although the fit of another parameter failed.
SlotsIndependent ==
  /\ [][\A q \in Params :
          Slot(SCALERS', q) # Slot(SCALERS, q) =>
            \E t \in RequestThreads \cup {StartupThread} : FitsFor(t, q)]_vars
  /\ [](/\ StartupThread \in DOMAIN threads
        /\ threads[StartupThread].pc = "done"
        /\ threads[StartupThread].result
        => \A p \in Params : FitNumeric(p) => p \in DOMAIN SCALERS)

\* The bulk fit has returned after the fit of moisture failed and the one of
\* pH, which follows it, succeeded, and a request is under way.
SlotsIndependentWitness ==
  /\ StartupThread \in DOMAIN threads
  /\ threads[StartupThread].pc = "done"
  /\ threads[StartupThread].result
  /\ "moisture" \notin DOMAIN SCALERS
  /\ ~FitNumeric("moisture")
  /\ "pH" \in DOMAIN SCALERS
  /\ \E t \in RequestThreads : t \in DOMAIN threads

\* A predict request was served and parameter p has a forecast record.
Forecast(p) ==
  /\ Replied("predict") /\ reply.success
  /\ HasStatus(reply.predictions[p], "success")

\* The last raw value of parameter p the request fetched.
CurrentOf(p) == FromInt(FetchedCells(p)[Len(FetchedCells(p))].v)

\* The values the model of p returned, at most FORECAST_STEPS of them, on
\* the raw scale of the scaler the request denormalized them with, and not
\* rounded.
HorizonOf(p) ==
  LET out  == ModelBehaviours[probe.outcomes[p]].value[1]
      used == probe.used[p].denormalized_with
  IN  FirstN(IF IsNone(used) THEN out ELSE ScalerInverse(used, out),
             FORECAST_STEPS)

LastOf(p) == HorizonOf(p)[Len(HorizonOf(p))]

\* C12: in a forecast record the trend is 'Increasing' exactly when the last
\* forecast value is strictly greater than the current value, and
\* 'Decreasing' when it is equal or lower.
TrendDirection ==
  \A p \in Params :
    Forecast(p) =>
      /\ reply.predictions[p].statistics.trend \in {"Increasing", "Decreasing"}
      /\ reply.predictions[p].statistics.trend = "Increasing"
           <=> BLess(CurrentOf(p), LastOf(p))

\* A record whose last forecast value equals the current value.
TrendDirectionWitness ==
  \E p \in Params :
    /\ Forecast(p)
    /\ LastOf(p) = CurrentOf(p)
    /\ reply.predictions[p].statistics.trend = "Decreasing"

\* The decimal fraction r has at most `digits` decimals.
HasDecimals(r, digits) == Pow10(digits) % r[2] = 0

\* The decimal fraction r as a multiple of 10^-digits.
Scaled(r, digits) == r[1] * (Pow10(digits) \div r[2])

\* r is the float x rounded to the given number of decimals: no multiple of
\* 10^-digits is nearer to the exact value of x than r.
IsRounded(r, x, digits) ==
  /\ HasDecimals(r, digits)
  /\ ~BLess(FromInt(1),
            BAbs(BSub(BMul(FromInt(2 * Pow10(digits)), x),
                      FromInt(2 * Scaled(r, digits)))))

\* r is the quotient num / den (den > 0) presented with two decimals: it is
\* within half a hundredth, and the floating tolerance, of the quotient, in
\* exact arithmetic.
IsQuotient2(r, num, den) ==
  /\ HasDecimals(r, 2)
  /\ ~BLess(BMul(BAdd(FromInt(1), Tolerance), den),
            BAbs(BSub(BMul(FromInt(200), num),
                      BMul(FromInt(2 * Scaled(r, 2)), den))))

\* |last forecast - current|, exactly.
DepartureOf(p) == BAbs(BSub(LastOf(p), CurrentOf(p)))

\* C13: the trend_strength of a forecast record is
\* |last forecast - current| / max(current, 1), presented with two decimals;
\* for a current value of at most 1 (zero and negative readings included)
\* that is |last forecast - current| / 1.
TrendStrength ==
  \A p \in Params :
    Forecast(p) =>
      /\ IsQuotient2(reply.predictions[p].statistics.trend_strength,
                     DepartureOf(p),
                     IF BLess(FromInt(1), CurrentOf(p)) THEN CurrentOf(p)
                     ELSE FromInt(1))
      /\ ~BLess(FromInt(1), CurrentOf(p)) =>
           IsQuotient2(reply.predictions[p].statistics.trend_strength,
                       DepartureOf(p), FromInt(1))

\* A record for a current value of zero and a forecast that departs from it.
TrendStrengthWitness ==
  \E p \in Params :
    /\ Forecast(p)
    /\ CurrentOf(p) = Zero
    /\ LastOf(p) # Zero
    /\ reply.predictions[p].statistics.trend_strength # Rat(0, 1)

\* abs(last forecast - current) / max(current, 1) as the floats give it, not
\* rounded.
StrengthOf(p) ==
  FDiv(BAbs(FSub(LastOf(p), CurrentOf(p))), MaxOf(CurrentOf(p), FromInt(1)))

\* Every number of a forecast record but the trend_strength is the unrounded
\* quantity, computed from the unrounded forecast, rounded to three decimals.
RoundedButStrength ==
  \A p \in Params :
    Forecast(p) =>
      LET record == reply.predictions[p]
          values == HorizonOf(p)
          n      == Len(values)
      IN  /\ IsRounded(record.current_value, CurrentOf(p), 3)
          /\ Len(record.forecast) = n
          /\ \A i \in 1..n : IsRounded(record.forecast[i], values[i], 3)
          /\ IsRounded(record.statistics.mean, Mean(values), 3)
          /\ IsRounded(record.statistics.min, SeqMin(values), 3)
          /\ IsRounded(record.statistics.max, SeqMax(values), 3)
          /\ IsRounded(record.statistics.range,
                       FSub(SeqMax(values), SeqMin(values)), 3)
          /\ IsRounded(record.statistics.std, Std(values), 3)

\* C14: every number of a forecast record (current_value, each forecast
\* value, mean, min, max, std, range and trend_strength) is the unrounded
\* quantity, computed from the unrounded forecast, rounded to three decimals.
RoundedToThree ==
  /\ RoundedButStrength
  /\ \A p \in Params :
       Forecast(p) =>
         IsRounded(reply.predictions[p].statistics.trend_strength, StrengthOf(p), 3)

\* A record whose trend_strength is the quotient rounded to two decimals and
\* is not the quotient rounded to three.
StrengthRoundedToTwo ==
  \E p \in Params :
    /\ Forecast(p)
    /\ IsRounded(reply.predictions[p].statistics.trend_strength, StrengthOf(p), 2)
    /\ ~IsRounded(reply.predictions[p].statistics.trend_strength, StrengthOf(p), 3)

\* C15: in a success envelope of predict every parameter entry is an error
\* marker or a record whose forecast list has exactly FORECAST_STEPS values,
\* whatever number of values the model returned.
ForecastLength ==
  (Replied("predict") /\ reply.success) =>
    \A p \in Params :
      \/ "error" \in DOMAIN reply.predictions[p]
      \/ /\ HasStatus(reply.predictions[p], "success")
         /\ Len(reply.predictions[p].forecast) = FORECAST_STEPS

\* The model returned fewer values than the horizon and the record carries
\* just these.
ForecastTooShort ==
  \E p \in Params :
    /\ Forecast(p)
    /\ Len(ModelBehaviours[probe.outcomes[p]].value[1]) \in 1..(FORECAST_STEPS - 1)
    /\ Len(reply.predictions[p].forecast)
         = Len(ModelBehaviours[probe.outcomes[p]].value[1])

\* The fit of parameter p succeeds on the table: data is available and the
\* parameter's column holds numbers only.
FitSucceeds(p) ==
  /\ supabase /\ probe.reachable /\ Len(store) > 0
  /\ \A i \in 1..Min(Len(store), FIT_FETCH_LIMIT) :
       IsNumeric(store[i][COLUMN_MAPPING[p]])

\* C16: fit_scalers_from_supabase returns True if this call fitted at least
\* one scaler and False if no data was available or every fit of this call
\* failed, whatever SCALERS held before.
FitReportsOwnWork ==
  probe.op = "fit_scalers_from_supabase" =>
    reply = Return(\E p \in Params : FitSucceeds(p))

\* Every fit of the call failed, SCALERS held a scaler before, and the call
\* returned True.
FitReportsEarlierWork ==
  /\ probe.op = "fit_scalers_from_supabase"
  /\ supabase /\ probe.reachable /\ Len(store) > 0
  /\ \A p \in Params : ~FitSucceeds(p)
  /\ DOMAIN probe.scalers_before # {}
  /\ SCALERS = probe.scalers_before
  /\ reply = Return(TRUE)

\* C17: every normalize_data call that returns, returns values in [0, 1],
\* also when the scaler of the parameter was stored before the call and the
\* data has values outside the data it was fitted on.
NormalizedInUnitRange ==
  (probe.op = "normalize_data" /\ ~IsRaised(reply)) =>
    \A i \in 1..Len(reply.value) :
      /\ ~BLess(reply.value[i], Zero)
      /\ ~BLess(FromInt(1), reply.value[i])

\* The scaler was stored before the call, the data has a value below and a
\* value above its range, and the result has a value below 0 and one above 1.
NormalizedOutsideUnitRange ==
  /\ probe.op = "normalize_data" /\ ~IsRaised(reply)
  /\ probe.param \in DOMAIN probe.scalers_before
  /\ SCALERS = probe.scalers_before
  /\ \E i \in 1..Len(probe.data) :
       BLess(probe.data[i], SCALERS[probe.param].data_min)
  /\ \E i \in 1..Len(probe.data) :
       BLess(SCALERS[probe.param].data_max, probe.data[i])
  /\ \E i \in 1..Len(reply.value) : BLess(reply.value[i], Zero)
  /\ \E i \in 1..Len(reply.value) : BLess(FromInt(1), reply.value[i])

\* The parameters whose status in MODEL_INFO is 'loaded'.
LoadedParams(info) ==
  {p \in DOMAIN info : info[p].status = "loaded"}

\* C18: whatever load_pretrained_models met, a load that raised after the
\* model was stored included, a parameter is a key of MODELS iff its status
\* is 'loaded', and the loaded_models count of model-status and the
\* models_loaded count of health equal the number of parameters with status
\* 'loaded'.
RegistryConsistent ==
  /\ DOMAIN MODELS = LoadedParams(MODEL_INFO)
  /\ (~IsNone(reply) /\ reply.op = "model_status") =>
       reply.loaded_models = Cardinality(LoadedParams(MODEL_INFO))
  /\ (~IsNone(reply) /\ reply.op = "health_check") =>
       reply.models_loaded = Cardinality(LoadedParams(MODEL_INFO))

\* A model whose load raised after it was stored is still a key of MODELS,
\* with status 'error', next to a model with status 'loaded', and
\* model-status counts both.
RegistryKeepsStaleModel ==
  /\ ~IsNone(reply) /\ reply.op = "model_status"
  /\ \E p \in DOMAIN MODELS : MODEL_INFO[p].status = "error"
  /\ \E p \in DOMAIN MODELS : MODEL_INFO[p].status = "loaded"
  /\ reply.loaded_models = Cardinality(LoadedParams(MODEL_INFO)) + 1

\* C19: within one predict request and one parameter, the scaler that
\* denormalized the forecast is the scaler that normalized the input window,
\* whatever other predict requests do in between.
SameScalerBothWays ==
  (Replied("predict") /\ reply.success) =>
    \A p \in DOMAIN probe.used :
      probe.used[p].denormalized_with = probe.used[p].normalized_with

\* The bulk fit of the startup found no data, and a request denormalized a
\* forecast with a scaler that another request fitted, from a later fetch,
\* after the first had normalized its window.
ScalerSwappedMidRequest ==
  /\ StartupThread \in DOMAIN threads
  /\ threads[StartupThread].pc = "done"
  /\ ~threads[StartupThread].result
  /\ Replied("predict") /\ reply.success
  /\ \E p \in DOMAIN probe.used :
       /\ ~IsNone(probe.used[p].denormalized_with)
       /\ probe.used[p].denormalized_with # probe.used[p].normalized_with
       /\ probe.used[p].denormalized_with = SCALERS[p]
       /\ HasStatus(reply.predictions[p], "success")

====
